---------------------------- MODULE Spec2Model ----------------------------
(***************************************************************************)
(* Model of the Hibiscus -> beancount importer                             *)
(* (src/src/importers/hibiscus.py, driven by src/src/import.py).           *)
(*                                                                         *)
(* Python strings are sequences of one-character strings, so that          *)
(* str(), float(), Decimal(), str.replace(), str.isdigit() and             *)
(* str.splitlines() are computed character by character.  A Python value   *)
(* of a row field is a record [t, n, e, s]:                                *)
(*    t = "int"    the int n                                               *)
(*    t = "float"  the float whose repr is n * 10^-e  (e >= 1)             *)
(*    t = "str"    the string s                                            *)
(***************************************************************************)
EXTENDS Integers, Sequences, FiniteSets, TLC

\* ------------------------------------------------------------------ bounds
\* rows in one pull
MaxRows == 2
\* extract() calls in one behaviour
MaxRuns == 2

\* ------------------------------------------------------- Python primitives
None == "<None>"

PyInt(n) == [t |-> "int", n |-> n, e |-> 0, s |-> <<>>]
PyFloat(n, e) == [t |-> "float", n |-> n, e |-> e, s |-> <<>>]
PyStr(s) == [t |-> "str", n |-> 0, e |-> 0, s |-> s]

DigitChars == {"0", "1", "2", "3", "4", "5", "6", "7", "8", "9"}

DigitVal ==
  "0" :> 0 @@ "1" :> 1 @@ "2" :> 2 @@ "3" :> 3 @@ "4" :> 4 @@
  "5" :> 5 @@ "6" :> 6 @@ "7" :> 7 @@ "8" :> 8 @@ "9" :> 9

DigitChar == <<"0", "1", "2", "3", "4", "5", "6", "7", "8", "9">>

\* code points of the characters that occur, for str < str
CharOrd ==
  "\n" :> 10 @@ "," :> 44 @@ "-" :> 45 @@ "." :> 46 @@
  [c \in DigitChars |-> 48 + DigitVal[c]]

Range(seq) == {seq[k] : k \in 1..Len(seq)}

Abs(n) == IF n < 0 THEN -n ELSE n

RECURSIVE Pow10(_)
Pow10(k) == IF k = 0 THEN 1 ELSE 10 * Pow10(k - 1)

\* str.isdigit(): non-empty and every character a digit
isdigit(s) == Len(s) > 0 /\ \A k \in 1..Len(s) : s[k] \in DigitChars

\* the digits of a natural number, most significant first
RECURSIVE NatToChars(_)
NatToChars(n) ==
  IF n < 10 THEN <<DigitChar[n + 1]>>
  ELSE NatToChars(n \div 10) \o <<DigitChar[(n % 10) + 1]>>

\* exactly e digits of f, zero padded on the left
RECURSIVE FracChars(_, _)
FracChars(f, e) ==
  IF e = 0 THEN <<>>
  ELSE FracChars(f \div 10, e - 1) \o <<DigitChar[(f % 10) + 1]>>

RECURSIVE CharsToNat(_)
CharsToNat(s) ==
  IF Len(s) = 0 THEN 0
  ELSE 10 * CharsToNat(SubSeq(s, 1, Len(s) - 1)) + DigitVal[s[Len(s)]]

\* str(x) / f"{x}"
py_str(v) ==
  CASE v.t = "str" -> v.s
    [] v.t = "int" ->
         (IF v.n < 0 THEN <<"-">> ELSE <<>>) \o NatToChars(Abs(v.n))
    [] v.t = "float" ->
         (IF v.n < 0 THEN <<"-">> ELSE <<>>)
           \o NatToChars(Abs(v.n) \div Pow10(v.e))
           \o <<".">>
           \o FracChars(Abs(v.n) % Pow10(v.e), v.e)

\* str.replace(old, new) for one-character old and new
RECURSIVE str_replace(_, _, _)
str_replace(s, old, new) ==
  IF Len(s) = 0 THEN <<>>
  ELSE <<IF s[1] = old THEN new ELSE s[1]>> \o str_replace(Tail(s), old, new)

\* position of the first occurrence of c in s, 0 if there is none
FirstIndex(s, c) ==
  IF c \in Range(s)
  THEN CHOOSE k \in 1..Len(s) : s[k] = c /\ \A j \in 1..(k - 1) : s[j] # c
  ELSE 0

\* The decimal literal grammar shared by float(str) and decimal.Decimal(str):
\* [sign] digits [. digits] | [sign] . digits ; anything else raises
\* (ValueError for float, decimal.InvalidOperation for Decimal).
\* The result is [ok, n, e]: the number n * 10^-e.
ParseNumber(s) ==
  LET neg  == Len(s) > 0 /\ s[1] = "-"
      body == IF Len(s) > 0 /\ s[1] \in {"-", "+"} THEN Tail(s) ELSE s
      dot  == FirstIndex(body, ".")
      ip   == IF dot = 0 THEN body ELSE SubSeq(body, 1, dot - 1)
      fp   == IF dot = 0 THEN <<>> ELSE SubSeq(body, dot + 1, Len(body))
      ok   == /\ Len(ip) + Len(fp) > 0
              /\ \A k \in 1..Len(ip) : ip[k] \in DigitChars
              /\ \A k \in 1..Len(fp) : fp[k] \in DigitChars
      mag  == CharsToNat(ip \o fp)
  IN  IF ok THEN [ok |-> TRUE, n |-> IF neg THEN -mag ELSE mag, e |-> Len(fp)]
      ELSE [ok |-> FALSE, n |-> 0, e |-> 0]

\* float(x)
py_float(v) ==
  IF v.t = "str" THEN ParseNumber(v.s) ELSE [ok |-> TRUE, n |-> v.n, e |-> v.e]

\* int(f) of a float: truncation toward zero
py_int_of_float(f) ==
  IF f.n < 0 THEN -(Abs(f.n) \div Pow10(f.e)) ELSE f.n \div Pow10(f.e)

\* int(x) of an int or of a string of digits
py_int(v) ==
  CASE v.t = "int" -> [ok |-> TRUE, n |-> v.n]
    [] v.t = "float" -> [ok |-> TRUE, n |-> py_int_of_float(v)]
    [] v.t = "str" ->
         LET neg  == Len(v.s) > 0 /\ v.s[1] = "-"
             body == IF Len(v.s) > 0 /\ v.s[1] \in {"-", "+"} THEN Tail(v.s) ELSE v.s
         IN  IF isdigit(body)
             THEN [ok |-> TRUE, n |-> IF neg THEN -CharsToNat(body) ELSE CharsToNat(body)]
             ELSE [ok |-> FALSE, n |-> 0]

\* decimal.Decimal(str(x))
Decimal(s) == ParseNumber(s)

\* Decimal == Decimal compares the numbers, not the exponents
DecEq(a, b) == a.n * Pow10(b.e) = b.n * Pow10(a.e)

\* Amount.__neg__
DecNeg(a) == [n |-> -a.n, e |-> a.e]


\* str < str: lexicographic on code points
RECURSIVE StrLess(_, _)
StrLess(a, b) ==
  IF Len(b) = 0 THEN FALSE
  ELSE IF Len(a) = 0 THEN TRUE
  ELSE IF a[1] # b[1] THEN CharOrd[a[1]] < CharOrd[b[1]]
  ELSE StrLess(Tail(a), Tail(b))

\* x < y for two values of the same Python type (the ids of one pull)
py_less(a, b) ==
  IF a.t = "str" /\ b.t = "str" THEN StrLess(a.s, b.s)
  ELSE a.n * Pow10(b.e) < b.n * Pow10(a.e)

\* s.split(c)
RECURSIVE SplitOn(_, _)
SplitOn(s, c) ==
  LET k == FirstIndex(s, c)
  IN  IF k = 0 THEN <<s>>
      ELSE <<SubSeq(s, 1, k - 1)>> \o SplitOn(SubSeq(s, k + 1, Len(s)), c)

\* f.read().splitlines(): lines end at "\n"; a last line without "\n" counts
RECURSIVE splitlines(_)
splitlines(text) ==
  LET k == FirstIndex(text, "\n")
  IN  IF Len(text) = 0 THEN <<>>
      ELSE IF k = 0 THEN <<text>>
      ELSE <<SubSeq(text, 1, k - 1)>> \o splitlines(SubSeq(text, k + 1, Len(text)))

\* ------------------------------------------------------------ fix_regional
\* hibiscus.py:354-362
fix_regional(str_num) ==
  IF str_num.t = "str" /\ ~isdigit(str_num.s) /\ "," \in Range(str_num.s)
  THEN PyStr(str_replace(str_num.s, ",", "."))
  ELSE str_num

\* ----------------------------------------------------- parse_hibiscus_time
IsLeap(y) == (y % 4 = 0 /\ y % 100 # 0) \/ y % 400 = 0

DaysIn(y, m) ==
  CASE m \in {4, 6, 9, 11} -> 30
    [] m = 2 -> IF IsLeap(y) THEN 29 ELSE 28
    [] OTHER -> 31

NoDate == [ok |-> FALSE, y |-> 0, m |-> 0, d |-> 0]

\* datetime.datetime.strptime(date_str, "%Y-%m-%d"): four digits of year,
\* one or two of month and of day, a real calendar day; else ValueError
strptime_ymd(date_str) ==
  LET p == SplitOn(date_str, "-")
  IN  IF /\ Len(p) = 3
         /\ isdigit(p[1]) /\ Len(p[1]) = 4
         /\ isdigit(p[2]) /\ Len(p[2]) \in {1, 2}
         /\ isdigit(p[3]) /\ Len(p[3]) \in {1, 2}
      THEN LET y == CharsToNat(p[1])
               m == CharsToNat(p[2])
               d == CharsToNat(p[3])
           IN  IF y >= 1 /\ m \in 1..12 /\ d >= 1 /\ d <= DaysIn(y, m)
               THEN [ok |-> TRUE, y |-> y, m |-> m, d |-> d]
               ELSE NoDate
      ELSE NoDate

\* faulty variant of parse_hibiscus_time: the length check is left out
parse_hibiscus_time_nolen(date_str) == strptime_ymd(date_str)

\* hibiscus.py:365-375
parse_hibiscus_time(date_str) ==
  IF Len(date_str) # 10 THEN NoDate ELSE strptime_ymd(date_str)

\* datetime.date < datetime.date
DateLess(a, b) ==
  \/ a.y < b.y
  \/ a.y = b.y /\ a.m < b.m
  \/ a.y = b.y /\ a.m = b.m /\ a.d < b.d

\* -------------------------------------------------- the account mapping
\* get_accounts(): the two dictionaries read from ACCOUNTS_MAPPING_CSV
hibiscus_account_ids == 7 :> "Assets:Bank:Checking" @@ 8 :> "Assets:Bank:Savings"

hibiscus_payees == "DE02SAVINGS" :> "Assets:Bank:Savings"

\* dict.get(key)
dict_get(d, key) == IF key \in DOMAIN d THEN d[key] ELSE None

\* ------------------------------------------------------------- entries
\* One record shape for both directives; the fields a directive does not
\* have hold None / NoUnits / <<>>.
NoUnits == [number |-> [n |-> 0, e |-> 0], currency |-> None]

NoEntry ==
  [type |-> None, date |-> [y |-> 0, m |-> 0, d |-> 0], flag |-> None,
   narration |-> None, account |-> None, units |-> NoUnits, postings |-> <<>>,
   meta |-> [filename |-> None, lineno |-> PyInt(0), huid |-> <<>>]]

Raise(err) == [ok |-> FALSE, err |-> err, entry |-> NoEntry]

Return(entry) == [ok |-> TRUE, err |-> None, entry |-> entry]

\* hibiscus.py:264-281
build_balance(row, bean_account) ==
  LET huid        == row.id
      date        == parse_hibiscus_time(row.datum)
      balance     == row.saldo
      balance_dec == Decimal(py_str(balance))
  IN  IF ~date.ok THEN Raise("ValueError")
      ELSE IF ~balance_dec.ok THEN Raise("InvalidOperation")
      ELSE Return(
        [type |-> "Balance",
         date |-> [y |-> date.y, m |-> date.m, d |-> date.d],
         flag |-> None, narration |-> None,
         account |-> bean_account,
         units |-> [number |-> [n |-> balance_dec.n, e |-> balance_dec.e],
                    currency |-> "EUR"],
         postings |-> <<>>,
         meta |-> [filename |-> "hibiscus", lineno |-> huid, huid |-> <<>>]])

\* faulty variant of build_transaction: the second leg repeats the amount
build_transaction_samesign(row, account_ids, payees) ==
  LET uid          == row.id
      account_id   == py_int(row.konto_id)
      bean_account == dict_get(account_ids, account_id.n)
      date         == parse_hibiscus_time(row.datum)
      amount_num   == fix_regional(row.betrag)
      amount_dec   == Decimal(py_str(amount_num))
      units        == [number |-> [n |-> amount_dec.n, e |-> amount_dec.e],
                       currency |-> "EUR"]
      posting      == [account |-> bean_account, units |-> units]
      payee_account == dict_get(payees, row.empfaenger_konto)
  IN  IF ~account_id.ok \/ ~date.ok THEN Raise("ValueError")
      ELSE IF ~amount_dec.ok THEN Raise("InvalidOperation")
      ELSE Return(
        [type |-> "Transaction",
         date |-> [y |-> date.y, m |-> date.m, d |-> date.d],
         flag |-> "*", narration |-> row.zweck,
         account |-> None, units |-> NoUnits,
         postings |->
           IF payee_account # None
           THEN <<posting, [account |-> payee_account, units |-> units]>>
           ELSE <<posting>>,
         meta |-> [filename |-> "<build_transaction>", lineno |-> PyInt(0),
                   huid |-> py_str(uid)]])

\* hibiscus.py:284-351
build_transaction(row, account_ids, payees) ==
  LET uid          == row.id
      account_id   == py_int(row.konto_id)
      bean_account == dict_get(account_ids, account_id.n)
      date         == parse_hibiscus_time(row.datum)
      amount_num   == fix_regional(row.betrag)
      amount_dec   == Decimal(py_str(amount_num))
      units        == [number |-> [n |-> amount_dec.n, e |-> amount_dec.e],
                       currency |-> "EUR"]
      posting      == [account |-> bean_account, units |-> units]
      payee_account == dict_get(payees, row.empfaenger_konto)
  IN  IF ~account_id.ok \/ ~date.ok THEN Raise("ValueError")
      ELSE IF ~amount_dec.ok THEN Raise("InvalidOperation")
      ELSE Return(
        [type |-> "Transaction",
         date |-> [y |-> date.y, m |-> date.m, d |-> date.d],
         flag |-> "*", narration |-> row.zweck,
         account |-> None, units |-> NoUnits,
         postings |->
           IF payee_account # None
           THEN <<posting,
                  [account |-> payee_account,
                   units |-> [number |-> DecNeg(units.number),
                              currency |-> units.currency]]>>
           ELSE <<posting>>,
         meta |-> [filename |-> "<build_transaction>", lineno |-> PyInt(0),
                   huid |-> py_str(uid)]])

\* ------------------------------------------------------------ data.sorted
\* beancount.core.data.SORT_ORDER: Balance -1, Transaction 0 (the default)
SORT_ORDER(type) == IF type = "Balance" THEN -1 ELSE 0

\* entry_sortkey(a) < entry_sortkey(b) for the key
\* (entry.date, SORT_ORDER.get(type(entry), 0), entry.meta["lineno"])
KeyLess(a, b) ==
  \/ DateLess(a.date, b.date)
  \/ /\ a.date = b.date
     /\ \/ SORT_ORDER(a.type) < SORT_ORDER(b.type)
        \/ /\ SORT_ORDER(a.type) = SORT_ORDER(b.type)
           /\ py_less(a.meta.lineno, b.meta.lineno)

\* e put into the sorted list s behind every entry whose key is not greater
RECURSIVE InsertStable(_, _)
InsertStable(s, e) ==
  IF Len(s) = 0 THEN <<e>>
  ELSE IF KeyLess(e, s[Len(s)])
       THEN InsertStable(SubSeq(s, 1, Len(s) - 1), e) \o <<s[Len(s)]>>
       ELSE s \o <<e>>

\* faulty variant of data_sorted: the entries are returned as collected
data_unsorted(entries) == entries

\* hibiscus.py:254, data.sorted(new_entries): sorted(entries, key=entry_sortkey),
\* Python's sort being stable
RECURSIVE data_sorted(_)
data_sorted(entries) ==
  IF Len(entries) = 0 THEN <<>>
  ELSE InsertStable(data_sorted(SubSeq(entries, 1, Len(entries) - 1)),
                    entries[Len(entries)])

\* ------------------------------------------------ the processed-id store
\* faulty variant of get_processed_huids: nothing is read
get_processed_huids_empty(file) == {}

\* hibiscus.py:500-507; file is the text of PROCESSED_HUIDS_FILE
get_processed_huids(file) == Range(splitlines(file))

RECURSIVE JoinLines(_)
JoinLines(huids) ==
  IF Len(huids) = 0 THEN <<>>
  ELSE py_str(huids[1]) \o <<"\n">> \o JoinLines(Tail(huids))

\* faulty variant of write_processed_huids: the file is opened with mode "w"
write_processed_huids_truncate(file, huids) == JoinLines(huids)

\* hibiscus.py:510-517; huids is the set in the order the for loop visits it
write_processed_huids(file, huids) == file \o JoinLines(huids)

\* the orders in which a for loop may visit a set
IterationOrders(S) ==
  {p \in [1..Cardinality(S) -> S] : Range(p) = S}

\* ------------------------------------------- ignore_already_processed
\* "True" / "False": the bool given to Importer(); "env": the non-empty string
\* os.getenv("IGNORE_ALREADY_PROCESSED") returns when Importer() is given None
FlagValues == {"True", "False", "env"}

\* `if self.ignore_already_processed:` (hibiscus.py:59)
Truthy(flag) == flag \in {"True", "env"}

\* `ignore_already_processed == True` (hibiscus.py:213, 244)
EqTrue(flag) == flag = "True"

\* ------------------------------------------------ one iteration of the loop
Skip == [kind |-> "skip", err |-> None, entry |-> NoEntry]

Drop == [kind |-> "drop", err |-> None, entry |-> NoEntry]

Built(r) ==
  IF r.ok THEN [kind |-> "entry", err |-> None, entry |-> r.entry]
  ELSE [kind |-> "raise", err |-> r.err, entry |-> NoEntry]

\* faulty variant of process_row: the id test does not look at the flag
process_row_noflag(row, flag, already_processed_huids) ==
  LET huid         == row.id
      account_id   == py_int(row.konto_id)
      bean_account == dict_get(hibiscus_account_ids, account_id.n)
      amount_num   == fix_regional(row.betrag)
      balance      == fix_regional(row.saldo)
      amount_f     == py_float(amount_num)
      balance_f    == py_float(balance)
  IN  IF py_str(huid) \in already_processed_huids THEN Skip
      ELSE IF ~account_id.ok THEN Built(Raise("ValueError"))
      ELSE IF bean_account = None THEN Drop
      ELSE IF ~amount_f.ok THEN Built(Raise("ValueError"))
      ELSE IF py_int_of_float(amount_f) = 0
           THEN IF ~balance_f.ok THEN Built(Raise("ValueError"))
                ELSE IF balance_f.n > 0
                     THEN Built(build_balance(row, bean_account))
                     ELSE Built(build_transaction(row, hibiscus_account_ids,
                                                  hibiscus_payees))
           ELSE Built(build_transaction(row, hibiscus_account_ids, hibiscus_payees))

\* faulty variant of process_row: the `bean_account is None` test is left out
process_row_nodrop(row, flag, already_processed_huids) ==
  LET huid         == row.id
      account_id   == py_int(row.konto_id)
      bean_account == dict_get(hibiscus_account_ids, account_id.n)
      amount_num   == fix_regional(row.betrag)
      balance      == fix_regional(row.saldo)
      amount_f     == py_float(amount_num)
      balance_f    == py_float(balance)
  IN  IF EqTrue(flag) /\ py_str(huid) \in already_processed_huids THEN Skip
      ELSE IF ~account_id.ok THEN Built(Raise("ValueError"))
      ELSE IF ~amount_f.ok THEN Built(Raise("ValueError"))
      ELSE IF py_int_of_float(amount_f) = 0
           THEN IF ~balance_f.ok THEN Built(Raise("ValueError"))
                ELSE IF balance_f.n > 0
                     THEN Built(build_balance(row, bean_account))
                     ELSE Built(build_transaction(row, hibiscus_account_ids,
                                                  hibiscus_payees))
           ELSE Built(build_transaction(row, hibiscus_account_ids, hibiscus_payees))

\* hibiscus.py:212-241, the body of `for cnt, row in enumerate(rows)`:
\* "skip" and "drop" are the two `continue`s, "raise" an exception that leaves
\* extract_transactions, "entry" the append of a built entry
process_row(row, flag, already_processed_huids) ==
  LET huid         == row.id
      account_id   == py_int(row.konto_id)
      bean_account == dict_get(hibiscus_account_ids, account_id.n)
      amount_num   == fix_regional(row.betrag)
      balance      == fix_regional(row.saldo)
      amount_f     == py_float(amount_num)
      balance_f    == py_float(balance)
  IN  IF EqTrue(flag) /\ py_str(huid) \in already_processed_huids THEN Skip
      ELSE IF ~account_id.ok THEN Built(Raise("ValueError"))
      ELSE IF bean_account = None THEN Drop
      ELSE IF ~amount_f.ok THEN Built(Raise("ValueError"))
      ELSE IF py_int_of_float(amount_f) = 0
           THEN IF ~balance_f.ok THEN Built(Raise("ValueError"))
                ELSE IF balance_f.n > 0
                     THEN Built(build_balance(row, bean_account))
                     ELSE Built(build_transaction(row, hibiscus_account_ids,
                                                  hibiscus_payees))
           ELSE Built(build_transaction(row, hibiscus_account_ids, hibiscus_payees))

\* ------------------------------------------------------------ the source
Row(id, konto_id, betrag, saldo, zweck, datum, empfaenger_konto) ==
  [id |-> id, konto_id |-> konto_id, betrag |-> betrag, saldo |-> saldo,
   zweck |-> zweck, datum |-> datum, empfaenger_konto |-> empfaenger_konto]

Mar01 == <<"2", "0", "2", "4", "-", "0", "3", "-", "0", "1">>

Mar02 == <<"2", "0", "2", "4", "-", "0", "3", "-", "0", "2">>

\* a date of 8 characters that strptime alone would accept
ShortDate == <<"2", "0", "2", "4", "-", "3", "-", "1">>

\* Rows of HIBISCUS.PUBLIC.UMSATZ as get_from_h2 reads them
\* (hibiscus.py:126-186): ids and account ids are ints, amounts and balances
\* floats, and every row is of an account of the mapping (WHERE KONTO_ID in)
H2Rows ==
  { Row(PyInt(1), PyInt(7), PyFloat(0, 1), PyFloat(-200, 1), "Zero", Mar02, "X"),
    Row(PyInt(2), PyInt(7), PyFloat(0, 1), PyFloat(1500, 1), "Saldo", Mar01, "X"),
    Row(PyInt(3), PyInt(7), PyFloat(5, 1), PyFloat(1500, 1), "Interest", Mar01, "X"),
    Row(PyInt(5), PyInt(7), PyFloat(-420, 1), PyFloat(1000, 1), "Transfer", Mar01,
        "DE02SAVINGS"),
    Row(PyInt(7), PyInt(7), PyFloat(-500, 1), PyFloat(1000, 1), "Coffee", ShortDate, "X"),
    Row(PyInt(8), PyInt(8), PyFloat(0, 1), PyFloat(2000, 1), "Saldo", Mar01, "X") }

S100 == <<"1", "0", "0">>

\* Rows as get_from_rpc returns them (hibiscus.py:116-123, 385-415): every
\* field is a string, numbers with a decimal comma
RPCRows ==
  { Row(PyStr(S100), PyStr(<<"7">>), PyStr(<<"-", "5", "0", ",", "0", "0">>),
        PyStr(<<"1", "5", "0", ",", "0", "0">>), "Coffee", Mar01, "X"),
    Row(PyStr(<<"9">>), PyStr(<<"7">>), PyStr(<<"0", ",", "0", "0">>),
        PyStr(<<"1", "5", "0", ",", "0", "0">>), "Saldo", Mar01, "X"),
    Row(PyStr(<<"1", "0", "1">>), PyStr(<<"7">>),
        PyStr(<<"1", ".", "2", "3", "4", ",", "5", "6">>),
        PyStr(<<"1", "5", "0", ",", "0", "0">>), "Salary", Mar01, "X"),
    Row(PyStr(<<"9">>), PyStr(<<"7">>), PyStr(<<"0">>), PyStr(<<"1", "5", "0">>),
        "Saldo", Mar01, "X"),
    Row(PyStr(S100), PyStr(<<"7">>), PyStr(<<"0">>), PyStr(<<"2", "0", "0">>),
        "Saldo", Mar01, "X"),
    Row(PyStr(<<"1", "0", "2">>), PyStr(<<"9">>),
        PyStr(<<"1", ".", "2", "3", "4", ",", "5", "6">>),
        PyStr(<<"1", "5", "0", ",", "0", "0">>), "Other", ShortDate, "X"),
    Row(PyStr(<<"1", "0", "3">>), PyStr(<<"7">>), PyStr(<<"-", "5", "0", ",", "0", "0">>),
        PyStr(<<"1", "5", "0", ",", "0", "0">>), "Coffee", ShortDate, "X"),
    Row(PyStr(<<"1", "0", "4">>), PyStr(<<"7">>), PyStr(<<"-", "0", ",", "5", "0">>),
        PyStr(<<"0", ",", "0", "0">>), "Transfer", Mar02, "DE02SAVINGS") }

SeqsUpTo(S, n) == UNION {[1..k -> S] : k \in 0..n}

\* what get_from_h2 may return: the rows come ORDER BY ID ASC, the id being
\* the key of the table (hibiscus.py:153-166)
H2Pulls ==
  {p \in SeqsUpTo(H2Rows, MaxRows) :
     \A i, j \in 1..Len(p) : i < j => p[i].id.n < p[j].id.n}

\* what get_from_rpc may return: the service decides the order
RPCPulls == SeqsUpTo(RPCRows, MaxRows)

\* PROCESSED_HUIDS_FILE before the first run: as get_huids_file touches it
\* (hibiscus.py:494-496)
InitialStores == {<<>>}

\* clean_up_descriptions (import.py:17-30): a new list, entry by entry
RECURSIVE clean_up_descriptions(_)
clean_up_descriptions(extracted_entries) ==
  IF Len(extracted_entries) = 0 THEN <<>>
  ELSE <<Head(extracted_entries)>> \o clean_up_descriptions(Tail(extracted_entries))

\* process_extracted_entries (import.py:33-49), on the entries of one
\* (filename, entries, account, importer)
process_extracted_entries(entries) == clean_up_descriptions(entries)

\* nothing has been handed on yet
NoSink == [received |-> FALSE, entries |-> <<>>]

\* ------------------------------------------------------------------ state
VARIABLES
  source,                   \* Importer.source
  rows,                     \* what the source returns (transactions_raw)
  store,                    \* the text of PROCESSED_HUIDS_FILE
  ignore_already_processed, \* Importer.ignore_already_processed
  processed_huids,          \* Importer.processed_huids
  pc,                       \* "start", "ready", "loop", "written", "done",
                            \* "failed"
  cnt,                      \* position of the for loop, from 1
  new_entries,
  newly_processed_huids,
  skipped,
  output,                   \* the list extract() returned
  error,                    \* the exception that ended the run
  store0,                   \* history: store when extract() was entered
  prev_ok,                  \* history: the process before this one ended
                            \* a run with the flag True without an exception
  calls,                    \* extract() calls on this Importer
  runs,                     \* extract() calls so far
  sink                      \* what the hook has handed on to be printed

vars ==
  <<source, rows, store, ignore_already_processed, processed_huids, pc, cnt,
    new_entries, newly_processed_huids, skipped, output, error, store0,
    prev_ok, calls, runs, sink>>

Init ==
  /\ source \in {"H2", "RPC"}
  /\ rows \in IF source = "H2" THEN H2Pulls ELSE RPCPulls
  /\ store \in InitialStores
  /\ ignore_already_processed = "False"
  /\ processed_huids = {}
  /\ pc = "start"
  /\ cnt = 0
  /\ new_entries = <<>>
  /\ newly_processed_huids = {}
  /\ skipped = 0
  /\ output = <<>>
  /\ error = None
  /\ store0 = store
  /\ prev_ok = FALSE
  /\ calls = 0
  /\ runs = 0
  /\ sink = NoSink

\* A process starts and builds the importer: Importer.__init__
\* (hibiscus.py:34-64; import.py:10-14 gives True, hibiscus.py:539 False)
Construct(flag) ==
  /\ pc \in {"start", "done", "failed"}
  /\ runs < MaxRuns
  /\ ignore_already_processed' = flag
  /\ processed_huids' = IF Truthy(flag) THEN get_processed_huids(store) ELSE {}
  /\ prev_ok' = (pc = "done" /\ EqTrue(ignore_already_processed))
  /\ pc' = "ready"
  /\ calls' = 0
  /\ cnt' = 0
  /\ new_entries' = <<>>
  /\ newly_processed_huids' = {}
  /\ skipped' = 0
  /\ output' = <<>>
  /\ error' = None
  /\ store0' = store
  /\ sink' = NoSink
  /\ UNCHANGED <<source, rows, store, runs>>

\* Importer.extract is called (hibiscus.py:87-113) and extract_transactions
\* sets up its locals (hibiscus.py:206-210)
Extract ==
  /\ pc \in {"ready", "done"}
  /\ runs < MaxRuns
  /\ runs' = runs + 1
  /\ calls' = calls + 1
  /\ pc' = "loop"
  /\ cnt' = 1
  /\ new_entries' = <<>>
  /\ newly_processed_huids' = {}
  /\ skipped' = 0
  /\ output' = <<>>
  /\ error' = None
  /\ store0' = store
  /\ sink' = NoSink
  /\ UNCHANGED <<source, rows, store, ignore_already_processed, processed_huids,
                 prev_ok>>

\* one iteration of the for loop (hibiscus.py:211-241)
ProcessRow ==
  /\ pc = "loop"
  /\ cnt <= Len(rows)
  /\ LET r == process_row(rows[cnt], ignore_already_processed, processed_huids)
     IN  /\ pc' = IF r.kind = "raise" THEN "failed" ELSE "loop"
         /\ error' = r.err
         /\ cnt' = IF r.kind = "raise" THEN cnt ELSE cnt + 1
         /\ skipped' = IF r.kind = "skip" THEN skipped + 1 ELSE skipped
         /\ new_entries' =
              IF r.kind = "entry" THEN Append(new_entries, r.entry) ELSE new_entries
         /\ newly_processed_huids' =
              IF r.kind = "entry" THEN newly_processed_huids \cup {rows[cnt].id}
              ELSE newly_processed_huids
  /\ UNCHANGED <<source, rows, store, ignore_already_processed, processed_huids,
                 output, store0, prev_ok, calls, runs, sink>>

\* the loop is over (hibiscus.py:242-251): the new ids are written to the
\* store if the flag is True
WriteStore ==
  /\ pc = "loop"
  /\ cnt > Len(rows)
  /\ \E huids \in IterationOrders(newly_processed_huids) :
       store' = IF EqTrue(ignore_already_processed)
                THEN write_processed_huids(store, huids)
                ELSE store
  /\ pc' = "written"
  /\ UNCHANGED <<source, rows, ignore_already_processed, processed_huids, cnt,
                 new_entries, newly_processed_huids, skipped, output, error,
                 store0, prev_ok, calls, runs, sink>>

\* after the write the entries are sorted and returned (hibiscus.py:252-254;
\* what merge_transactions returns is not used)
Finish ==
  /\ pc = "written"
  /\ output' = data_sorted(new_entries)
  /\ pc' = "done"
  /\ UNCHANGED <<source, rows, store, ignore_already_processed, processed_huids,
                 cnt, new_entries, newly_processed_huids, skipped, error, store0,
                 prev_ok, calls, runs, sink>>

\* the hook receives what extract() returned and hands its copy on to be
\* printed (import.py:33-52)
Consume ==
  /\ pc = "done"
  /\ ~sink.received
  /\ sink' = [received |-> TRUE, entries |-> process_extracted_entries(output)]
  /\ UNCHANGED <<source, rows, store, ignore_already_processed, processed_huids,
                 pc, cnt, new_entries, newly_processed_huids, skipped, output,
                 error, store0, prev_ok, calls, runs>>

Next ==
  \/ \E flag \in FlagValues : Construct(flag)
  \/ Extract
  \/ ProcessRow
  \/ WriteStore
  \/ Finish
  \/ Consume

Spec == Init /\ [][Next]_vars

\* ================================================================ claims
\* What the claims say of a row, stated on the row itself.

\* the number a field stands for: a float or int is its value; in a string
\* with a comma the comma is the decimal separator and periods group thousands
RECURSIVE WithoutChar(_, _)
WithoutChar(s, c) ==
  IF Len(s) = 0 THEN <<>>
  ELSE (IF s[1] = c THEN <<>> ELSE <<s[1]>>) \o WithoutChar(Tail(s), c)

LocaleValue(v) ==
  IF v.t # "str" THEN [ok |-> TRUE, n |-> v.n, e |-> v.e]
  ELSE IF "," \in Range(v.s)
       THEN ParseNumber(str_replace(WithoutChar(v.s, "."), ",", "."))
       ELSE ParseNumber(v.s)

InCall == pc \in {"loop", "written", "done", "failed"}

\* the rows the loop of the current call has gone past without an exception
Completed == IF InCall THEN 1..(cnt - 1) ELSE {}

\* the rows the loop has worked on, the one that raised included
Handled == Completed \cup (IF pc = "failed" THEN {cnt} ELSE {})

IsSkipped(j) ==
  ignore_already_processed = "True" /\ py_str(rows[j].id) \in processed_huids

AccountOf(j) == dict_get(hibiscus_account_ids, py_int(rows[j].konto_id).n)

IsMapped(j) == AccountOf(j) # None

\* row j is neither skipped as already processed nor of an unmapped account
Produced(j) == ~IsSkipped(j) /\ IsMapped(j)

\* date and numbers of row j are well formed once normalised
WellFormed(j) ==
  /\ parse_hibiscus_time(rows[j].datum).ok
  /\ py_float(fix_regional(rows[j].betrag)).ok
  /\ py_float(fix_regional(rows[j].saldo)).ok

\* the position in new_entries of the entry row j gave
EntryIdx(j) == Cardinality({i \in 1..j : Produced(i)})

HasEntry(j) == EntryIdx(j) <= Len(new_entries)

EntryOf(j) == new_entries[EntryIdx(j)]

IsBalanceRow(j) ==
  LocaleValue(rows[j].betrag).n = 0 /\ LocaleValue(rows[j].saldo).n > 0

C2_ZeroAmountGivesBalance ==
  \A j \in Handled :
    (Produced(j) /\ WellFormed(j) /\ IsBalanceRow(j))
      => /\ HasEntry(j)
         /\ EntryOf(j).type = "Balance"
         /\ EntryOf(j).account = AccountOf(j)
         /\ EntryOf(j).units.currency = "EUR"
         /\ DecEq(EntryOf(j).units.number, LocaleValue(rows[j].saldo))

\* C3: every row that is not skipped, is mapped, is well formed and does not
\* have (amount = 0 and balance > 0) gives one Transaction entry.
C3_OtherRowsGiveTransaction ==
  \A j \in Handled :
    (Produced(j) /\ WellFormed(j) /\ ~IsBalanceRow(j))
      => /\ HasEntry(j)
         /\ EntryOf(j).type = "Transaction"

\* no entry of the list is dated before an entry in front of it
DateSorted(entries) ==
  \A i, j \in 1..Len(entries) :
    i < j => ~DateLess(entries[j].date, entries[i].date)

OnDate(entries, d) ==
  LET Test(e) == e.date = d IN SelectSeq(entries, Test)

OfType(entries, type) ==
  LET Test(e) == e.type = type IN SelectSeq(entries, Test)

WithLineno(entries, lineno) ==
  LET Test(e) == e.meta.lineno = lineno IN SelectSeq(entries, Test)

DatesOf(entries) == {entries[k].date : k \in 1..Len(entries)}

LinenosOf(entries) == {entries[k].meta.lineno : k \in 1..Len(entries)}

RowOfEntry(k) == CHOOSE j \in 1..Len(rows) : Produced(j) /\ EntryIdx(j) = k

\* C5: a Transaction has its first posting on the mapped account with the
\* row's amount; it has two postings iff the counterparty reference is a key
\* of the payee map, the second on the payee's account with an amount that
\* sums to zero with the first; otherwise it has one posting.
C5_Postings ==
  InCall =>
    \A k \in 1..Len(new_entries) :
      LET e == new_entries[k]
          r == rows[RowOfEntry(k)]
          p == e.postings
      IN  e.type = "Transaction"
            => /\ Len(p) \in {1, 2}
               /\ p[1].account = AccountOf(RowOfEntry(k))
               /\ p[1].units.currency = "EUR"
               /\ DecEq(p[1].units.number, LocaleValue(r.betrag))
               /\ (Len(p) = 2 <=> r.empfaenger_konto \in DOMAIN hibiscus_payees)
               /\ Len(p) = 2
                    => /\ p[2].account = hibiscus_payees[r.empfaenger_konto]
                       /\ p[2].units.currency = "EUR"
                       /\ p[1].units.number.n * Pow10(p[2].units.number.e)
                            + p[2].units.number.n * Pow10(p[1].units.number.e) = 0

C5_Witness ==
  /\ pc = "done"
  /\ \E k \in 1..Len(output) :
       /\ output[k].type = "Transaction"
       /\ Len(output[k].postings) = 2
       /\ output[k].postings[1].units.number.n < 0
       /\ output[k].postings[2].units.number.n > 0
  /\ \E k \in 1..Len(output) :
       output[k].type = "Transaction" /\ Len(output[k].postings) = 1

\* row j gets as far as build_balance or build_transaction
ReachesBuild(j) ==
  /\ Produced(j)
  /\ py_float(fix_regional(rows[j].betrag)).ok
  /\ py_int_of_float(py_float(fix_regional(rows[j].betrag))) = 0
       => py_float(fix_regional(rows[j].saldo)).ok

\* C6: once the loop has come to a row that reaches entry building and whose
\* date is not 10 characters long, the run has ended with a ValueError at that
\* row: nothing is returned and the store is as it was when the run began.
C6_BadDateAborts ==
  \A j \in 1..Len(rows) :
    (/\ InCall
     /\ ReachesBuild(j)
     /\ Len(rows[j].datum) # 10
     /\ (cnt > j \/ (cnt = j /\ pc # "loop")))
      => /\ pc = "failed"
         /\ cnt = j
         /\ error = "ValueError"
         /\ output = <<>>
         /\ store = store0

\* the second row has the bad date, the first had given an entry whose id
\* would have been written
C6_Witness ==
  /\ pc = "failed"
  /\ cnt = 2
  /\ Len(rows[2].datum) # 10
  /\ EqTrue(ignore_already_processed)
  /\ Len(new_entries) = 1
  /\ newly_processed_huids # {}

\* C7: when the flag is not True no row is skipped for its id: every mapped
\* row the loop went past gave its entry, and the store is not written.
C7_FlagFalseSkipsNothing ==
  (InCall /\ ~EqTrue(ignore_already_processed))
    => /\ skipped = 0
       /\ Len(new_entries) = Cardinality({j \in Completed : IsMapped(j)})
       /\ store = store0

\* a row whose id is in the loaded set gave its entry all the same
C7_Witness ==
  /\ pc = "done"
  /\ ~EqTrue(ignore_already_processed)
  /\ \E j \in 1..Len(rows) :
       py_str(rows[j].id) \in processed_huids /\ IsMapped(j)
  /\ Len(output) >= 1

\* C8: a row of an unmapped account gives no entry, raises nothing, does not
\* end the loop and does not put its id into the newly processed set: the
\* entries and the new ids are those of the rows that are neither skipped nor
\* unmapped, and an exception is only ever raised at a mapped row.
C8_UnmappedRowDropped ==
  InCall =>
    /\ Len(new_entries) = Cardinality({j \in Completed : Produced(j)})
    /\ newly_processed_huids = {rows[j].id : j \in {i \in Completed : Produced(i)}}
    /\ pc = "failed" => IsMapped(cnt)
    /\ pc = "done" => Completed = 1..Len(rows)

\* an unmapped row with a malformed amount and date was passed, the row after
\* it gave an entry
C8_Witness ==
  /\ pc = "done"
  /\ Len(rows) = 2
  /\ ~IsMapped(1)
  /\ ~WellFormed(1)
  /\ Len(output) = 1
  /\ EqTrue(ignore_already_processed)
  /\ store # store0

IsPrefix(a, b) == Len(a) <= Len(b) /\ SubSeq(b, 1, Len(a)) = a

\* what the current call has put behind the text the store had
Appended == SubSeq(store, Len(store0) + 1, Len(store))

\* the run has come through the loop without an exception and past the write
PastWrite == pc \in {"written", "done"}

\* C9: the store only grows.  After a run with the flag True that came through
\* the loop without an exception the text the store had is a prefix of its
\* text, and what follows are the ids of the rows that gave an entry in this
\* run, each once, each on a line of its own; in every other case the store is
\* as it was.
C9_StoreAppendOnly ==
  /\ IsPrefix(store0, store)
  /\ (PastWrite /\ EqTrue(ignore_already_processed))
       => /\ Range(splitlines(Appended))
               = {py_str(rows[j].id) : j \in {i \in 1..Len(rows) : Produced(i)}}
          /\ Len(splitlines(Appended))
               = Cardinality({rows[j].id : j \in {i \in 1..Len(rows) : Produced(i)}})
          /\ Appended # <<>> => Appended[Len(Appended)] = "\n"
  /\ ~(PastWrite /\ EqTrue(ignore_already_processed)) => store = store0

\* a second run appends to a store that already holds lines
C9_Witness ==
  /\ pc = "done"
  /\ EqTrue(ignore_already_processed)
  /\ store0 # <<>>
  /\ Len(splitlines(Appended)) = 2

\* C10: fix_regional followed by Decimal(str(.)) gives the exact value of
\* every amount and balance the loop has worked on, and fix_regional returns
\* a number, or a string without a comma, as it is.
C10_NormalizeIsExact ==
  \A j \in Handled :
    \A v \in {rows[j].betrag, rows[j].saldo} :
      LET d == Decimal(py_str(fix_regional(v)))
      IN  /\ d.ok
          /\ DecEq(d, LocaleValue(v))
          /\ (v.t # "str" \/ "," \notin Range(v.s)) => fix_regional(v) = v

\* the record id, as the store writes it, of the row that gave the k-th entry
IdOfEntry(k) == py_str(rows[RowOfEntry(k)].id)

\* C11: during a call with the flag True the output is deduplicated by record
\* id: no two entries built in the call derive from the same record id, and a
\* further extract call on the same importer, whose earlier call went through
\* these rows, builds no entry of a row that call gave an entry for, adds no
\* id and leaves the store as it found it.
C11_DedupedByRecordId ==
  (InCall /\ EqTrue(ignore_already_processed))
    => /\ \A k1, k2 \in 1..Len(new_entries) :
            k1 # k2 => IdOfEntry(k1) # IdOfEntry(k2)
       /\ calls > 1
            => /\ new_entries = <<>>
               /\ newly_processed_huids = {}
               /\ store = store0

\* the sink holds the sorted entries of the current call
SinkHasOutput ==
  /\ pc = "done"
  /\ sink.received
  /\ sink.entries = data_sorted(new_entries)

\* C12: in a call with the flag True the new ids are appended to the store
\* only after the entries have been sorted and consumed by the sink: as long
\* as the sink has not received the sorted entries of the call, the store is
\* as it was when the call began.
C12_StoreWrittenAfterSink ==
  (InCall /\ EqTrue(ignore_already_processed) /\ ~SinkHasOutput)
    => store = store0

=============================================================================
